---- MODULE Spec2Model ----
(***************************************************************************)
(* Model of poper's App component (src/src/App.jsx): the form state, the   *)
(* submit handler handleMovieSuggestion with its two helpers               *)
(* getAiSuggestions and searchMoviesWithOMDb, and the pure year filter     *)
(* filterMoviesByYear.                                                     *)
(*                                                                         *)
(* Strings that the code takes apart (the mood text, the generated text,   *)
(* a record's Year) are sequences of one-character strings, so that trim,  *)
(* split and parseInt are computed as the code computes them.  A fetch is  *)
(* entered in the log calls when it is issued; the action that resumes the *)
(* code after the await picks how the fetch has settled and runs the code  *)
(* up to its next await.                                                   *)
(***************************************************************************)
EXTENDS Integers, Sequences, FiniteSets, TLC

VARIABLES
    GEMINI_API_KEY,  \* TRUE iff import.meta.env.VITE_GEMINI_API_KEY is set
    OMDB_API_KEY,    \* TRUE iff import.meta.env.VITE_OMDB_API_KEY is set
    userInput,       \* useState('')
    filters,         \* useState({language, genre, year})
    movies,          \* useState([])
    isLoading,       \* useState(false)
    error,           \* useState(null)
    pc,              \* where the one running handleMovieSuggestion stands
    reqInput,        \* userInput as captured by the running handler
    reqFilters,      \* filters as captured by the running handler
    titles,          \* suggestedTitles
    idx,             \* position of the for..of over titles (1-based)
    seenMovies,      \* the Set of ids
    results,         \* the collected records
    hits,            \* fallbackData.Search
    hidx,            \* position of the for..of over fallbackData.Search
    calls,           \* every fetch the running request has issued, in order
    last,            \* the fetch the code resumed on last, and how it had settled
    fMovies,         \* year-filter harness: the input list
    fYear,           \* year-filter harness: the bucket
    fOut,            \* year-filter harness: filterMoviesByYear(fMovies, fYear)
    fTwice,          \* year-filter harness: filterMoviesByYear(fOut, fYear)
    fpc              \* year-filter harness: how often the filter was applied

vars == <<GEMINI_API_KEY, OMDB_API_KEY, userInput, filters, movies, isLoading,
          error, pc, reqInput, reqFilters, titles, idx, seenMovies, results,
          hits, hidx, calls, last, fMovies, fYear, fOut, fTwice, fpc>>

appVars == <<GEMINI_API_KEY, OMDB_API_KEY, userInput, filters, movies,
             isLoading, error, pc, reqInput, reqFilters, titles, idx,
             seenMovies, results, hits, hidx, calls, last>>

harnessVars == <<fMovies, fYear, fOut, fTwice, fpc>>

----------------------------------------------------------------------------
(* Bounds and input sets *)

MaxText == 3     \* longest generated text, in characters
MaxHits == 2     \* longest Search array of a keyword search
MaxLen == 2      \* longest record list given to the year-filter harness

SeqsUpTo(S, n) == UNION {[1..k -> S] : k \in 0..n}

Whitespace == {" "}

\* the characters a generated text is made of
TextChars == {",", " ", "a"}

GeminiTexts == SeqsUpTo(TextChars, MaxText)

\* the mood texts the user can have typed
InputTexts == {<<>>, <<" ">>, <<"a">>, <<" ", "a">>}

----------------------------------------------------------------------------
(* Strings *)

RECURSIVE TrimStart(_)
TrimStart(s) ==
    IF s # <<>> /\ Head(s) \in Whitespace THEN TrimStart(Tail(s)) ELSE s

RECURSIVE TrimEnd(_)
TrimEnd(s) ==
    IF s # <<>> /\ s[Len(s)] \in Whitespace
    THEN TrimEnd(SubSeq(s, 1, Len(s) - 1))
    ELSE s

\* String.prototype.trim
Trim(s) == TrimEnd(TrimStart(s))

\* text.split(','): the pieces between the commas, empty pieces included
RECURSIVE SplitComma(_, _)
SplitComma(s, piece) ==
    IF s = <<>> THEN <<piece>>
    ELSE IF Head(s) = "," THEN <<piece>> \o SplitComma(Tail(s), <<>>)
    ELSE SplitComma(Tail(s), Append(piece, Head(s)))

MapTrim(ps) == [i \in 1..Len(ps) |-> Trim(ps[i])]

IsTruthyString(s) == s # <<>>

\* text.split(',').map(t => t.trim()).filter(Boolean)
ParseTitles(text) == SelectSeq(MapTrim(SplitComma(text, <<>>)), IsTruthyString)

----------------------------------------------------------------------------
(* The year filter *)

Digits == {"0", "1", "2", "3", "4", "5", "6", "7", "8", "9"}

DigitVal(c) ==
    CASE c = "0" -> 0 [] c = "1" -> 1 [] c = "2" -> 2 [] c = "3" -> 3
      [] c = "4" -> 4 [] c = "5" -> 5 [] c = "6" -> 6 [] c = "7" -> 7
      [] c = "8" -> 8 [] c = "9" -> 9

\* the longest prefix of s made of decimal digits
RECURSIVE DigitPrefix(_)
DigitPrefix(s) ==
    IF s # <<>> /\ Head(s) \in Digits
    THEN <<Head(s)>> \o DigitPrefix(Tail(s))
    ELSE <<>>

RECURSIVE DecimalValue(_)
DecimalValue(d) ==
    IF d = <<>> THEN 0
    ELSE 10 * DecimalValue(SubSeq(d, 1, Len(d) - 1)) + DigitVal(d[Len(d)])

\* a number is <<n>>, NaN is <<>>
NaN == <<>>

IsNaN(v) == v = NaN

\* parseInt(string), radix 10: leading white space is skipped, one sign is
\* read, then the longest run of digits; what follows the digits is ignored,
\* and no digit at all gives NaN.  (No Year of the model starts with 0x.)
ParseInt(s) ==
    LET t == TrimStart(s)
        signed == t # <<>> /\ Head(t) \in {"+", "-"}
        u == IF signed THEN Tail(t) ELSE t
        d == DigitPrefix(u)
    IN  IF d = <<>> THEN NaN
        ELSE IF signed /\ Head(t) = "-" THEN <<0 - DecimalValue(d)>>
        ELSE <<DecimalValue(d)>>

\* the values of the options of the year select, 'all' apart: the cases of
\* the switch
RecognizedBuckets ==
    {"2025", "2024", "2023", "2022", "2021", "2020",
     "2010s", "2000s", "1990s", "1980s", "classic"}

IsClassic_Inclusive(y) == y <= 1980

\* case 'classic'
IsClassic(y) == y < 1980

\* the switch on yearFilter
BucketHolds(y, yearFilter) ==
    CASE yearFilter = "2025" -> y = 2025
      [] yearFilter = "2024" -> y = 2024
      [] yearFilter = "2023" -> y = 2023
      [] yearFilter = "2022" -> y = 2022
      [] yearFilter = "2021" -> y = 2021
      [] yearFilter = "2020" -> y = 2020
      [] yearFilter = "2010s" -> y >= 2010 /\ y <= 2019
      [] yearFilter = "2000s" -> y >= 2000 /\ y <= 2009
      [] yearFilter = "1990s" -> y >= 1990 /\ y <= 1999
      [] yearFilter = "1980s" -> y >= 1980 /\ y <= 1989
      [] yearFilter = "classic" -> IsClassic(y)
      [] OTHER -> TRUE

\* the callback without its isNaN test: every comparison with NaN is false,
\* so NaN fails each case of the switch and passes its default
YearMatches_NoNaNTest(movie, yearFilter) ==
    LET movieYear == ParseInt(movie.Year) IN
    IF IsNaN(movieYear) THEN yearFilter \notin RecognizedBuckets
    ELSE BucketHolds(movieYear[1], yearFilter)

\* the callback of movies.filter in filterMoviesByYear
YearMatches(movie, yearFilter) ==
    LET movieYear == ParseInt(movie.Year) IN
    IF IsNaN(movieYear) THEN FALSE
    ELSE BucketHolds(movieYear[1], yearFilter)

\* the filter starting at the second record
filterMoviesByYear_SkipsFirst(ms, yearFilter) ==
    IF yearFilter = "all" \/ ms = <<>> THEN ms
    ELSE LET Keep(m) == YearMatches(m, yearFilter) IN SelectSeq(Tail(ms), Keep)

filterMoviesByYear(ms, yearFilter) ==
    IF yearFilter = "all" THEN ms
    ELSE LET Keep(m) == YearMatches(m, yearFilter) IN SelectSeq(ms, Keep)

HasPoster(movie) == movie.Poster # "N/A"

----------------------------------------------------------------------------
(* The form and the two APIs *)

Null == "null"

\* the options of the three selects
FilterOptions(id) ==
    CASE id = "languageFilter" -> {"all"}
      [] id = "genreFilter" -> {"all"}
      [] id = "yearFilter" -> {"all", "2010s", "classic"}

FilterIds == {"languageFilter", "genreFilter", "yearFilter"}

\* id.replace('Filter', '')
FilterKey(id) ==
    CASE id = "languageFilter" -> "language"
      [] id = "genreFilter" -> "genre"
      [] id = "yearFilter" -> "year"

ValidationMsg == "Please describe your movie mood or scenario."
ConfigMsg == "Configuration Error: API keys are missing."
GeminiKeyMsg == "Gemini API key is missing."
AiFailedMsg == "Failed to get suggestions from the AI service."
AiEmptyMsg == "The AI returned an empty response. Please try again."
SearchFailedMsg == "Failed to search for movies. Please try again later."
NoMatchMsg == "Couldn't find any movies matching your request."
UnknownMsg == "An unknown error occurred. Please try again."

\* the messages of the errors fetch and response.json() reject with
RejectMessages == {"Failed to fetch", ""}
JsonErrorMsg == "Unexpected token"

IDs == {"tt1", "tt2"}
Posters == {"N/A", "http://poster"}
Years == {<<"1", "9", "7", "5">>, <<"2", "0", "1", "5">>, <<"N", "/", "A">>}

\* a found response of the t= and i= endpoints
MovieRecords ==
    [Response : {"True"}, imdbID : IDs, Year : Years, Poster : Posters]

NotFound == [Response |-> "False"]

\* an entry of the Search array of the s= endpoint
SearchHits == [imdbID : IDs]

NoBody == [none |-> TRUE]

\* how a fetch of the given kind can settle: the fetch rejects, the status is
\* not a success, the body is not JSON, or the body is some JSON value
Outcomes(kind) ==
    {[how |-> "reject", message |-> m, body |-> NoBody] : m \in RejectMessages}
    \cup {[how |-> "notok", message |-> "", body |-> NoBody]}
    \cup {[how |-> "badjson", message |-> JsonErrorMsg, body |-> NoBody]}
    \cup {[how |-> "json", message |-> "", body |-> b] :
            b \in CASE kind = "generate" ->
                         {[hasText |-> FALSE, text |-> <<>>]}
                         \cup {[hasText |-> TRUE, text |-> t] : t \in GeminiTexts}
                    [] kind = "search" ->
                         {[Response |-> "False", hasSearch |-> FALSE, Search |-> <<>>],
                          [Response |-> "True", hasSearch |-> FALSE, Search |-> <<>>]}
                         \cup {[Response |-> "True", hasSearch |-> TRUE, Search |-> h] :
                                 h \in SeqsUpTo(SearchHits, MaxHits)}
                    [] OTHER -> MovieRecords \cup {NotFound}}

NoLast == [kind |-> "none", state |-> "none"]

DefaultFilters == [language |-> "all", genre |-> "all", year |-> "all"]

FilterValues ==
    [language : FilterOptions("languageFilter"),
     genre : FilterOptions("genreFilter"),
     year : FilterOptions("yearFilter")]

----------------------------------------------------------------------------
(* State after the component has mounted *)

\* the effect run on mount
MountError(gemini, omdb) == IF ~gemini \/ ~omdb THEN ConfigMsg ELSE Null

HarnessIdle ==
    /\ fMovies = <<>>
    /\ fYear = "all"
    /\ fOut = <<>>
    /\ fTwice = <<>>
    /\ fpc = 0

Init ==
    /\ GEMINI_API_KEY \in BOOLEAN
    /\ OMDB_API_KEY \in BOOLEAN
    /\ userInput = <<>>
    /\ filters = DefaultFilters
    /\ movies = <<>>
    /\ isLoading = FALSE
    /\ error = MountError(GEMINI_API_KEY, OMDB_API_KEY)
    /\ pc = "idle"
    /\ reqInput = <<>>
    /\ reqFilters = DefaultFilters
    /\ titles = <<>>
    /\ idx = 0
    /\ seenMovies = {}
    /\ results = <<>>
    /\ hits = <<>>
    /\ hidx = 0
    /\ calls = <<>>
    /\ last = NoLast
    /\ HarnessIdle

----------------------------------------------------------------------------
(* The form *)

\* onChange of the text input
SetUserInput ==
    /\ \E text \in InputTexts : userInput' = text
    /\ UNCHANGED <<GEMINI_API_KEY, OMDB_API_KEY, filters, movies, isLoading,
                   error, pc, reqInput, reqFilters, titles, idx, seenMovies,
                   results, hits, hidx, calls, last>>
    /\ UNCHANGED harnessVars

handleFilterChange ==
    /\ \E id \in FilterIds : \E value \in FilterOptions(id) :
          filters' = [filters EXCEPT ![FilterKey(id)] = value]
    /\ UNCHANGED <<GEMINI_API_KEY, OMDB_API_KEY, userInput, movies, isLoading,
                   error, pc, reqInput, reqFilters, titles, idx, seenMovies,
                   results, hits, hidx, calls, last>>
    /\ UNCHANGED harnessVars

----------------------------------------------------------------------------
(* How a running request moves on *)

\* what the log keeps of a settled fetch: "failed" when the fetch rejected,
\* the status was not a success, the body was not JSON or the body said not
\* found; otherwise what the code finds in the body ("blank" is a generated
\* text that is not empty and holds no title)
StateOf(kind, o) ==
    IF o.how # "json" THEN "failed"
    ELSE CASE kind = "generate" ->
                IF ~o.body.hasText THEN "missing"
                ELSE IF o.body.text = <<>> THEN "empty"
                ELSE IF ParseTitles(o.body.text) = <<>> THEN "blank"
                ELSE "text"
           [] kind = "search" ->
                IF o.body.Response = "True" /\ o.body.hasSearch
                THEN "found" ELSE "failed"
           [] OTHER ->
                IF o.body.Response = "True" THEN "found" ELSE "failed"

Settle(cs, n, o) ==
    [cs EXCEPT ![n] = [kind |-> cs[n].kind, arg |-> cs[n].arg,
                       state |-> StateOf(cs[n].kind, o)]]

Resumed(cs, n, o) == [kind |-> cs[n].kind, state |-> StateOf(cs[n].kind, o)]

\* the fetches that have been issued and have not settled
InFlight(cs) == {n \in 1..Len(cs) : cs[n].state = "pending"}

\* err.message || 'An unknown error occurred. Please try again.'
MessageOf(message) == IF message = "" THEN UnknownMsg ELSE message

\* the finally block: the handler is over, its locals are gone
Finish(cs, newMovies, newError) ==
    /\ movies' = newMovies
    /\ error' = newError
    /\ isLoading' = FALSE
    /\ pc' = "idle"
    /\ calls' = <<>>
    /\ reqInput' = <<>>
    /\ reqFilters' = DefaultFilters
    /\ titles' = <<>>
    /\ idx' = 0
    /\ seenMovies' = {}
    /\ results' = <<>>
    /\ hits' = <<>>
    /\ hidx' = 0
    /\ UNCHANGED <<GEMINI_API_KEY, OMDB_API_KEY, userInput, filters>>

Fail_NoFinally(cs, message) ==
    /\ movies' = movies
    /\ error' = MessageOf(message)
    /\ isLoading' = isLoading
    /\ pc' = "idle"
    /\ calls' = <<>>
    /\ reqInput' = <<>>
    /\ reqFilters' = DefaultFilters
    /\ titles' = <<>>
    /\ idx' = 0
    /\ seenMovies' = {}
    /\ results' = <<>>
    /\ hits' = <<>>
    /\ hidx' = 0
    /\ UNCHANGED <<GEMINI_API_KEY, OMDB_API_KEY, userInput, filters>>

\* the catch block of handleMovieSuggestion
Fail(cs, message) == Finish(cs, movies, MessageOf(message))

\* the value searchMoviesWithOMDb returns
Returned(res, yearFilter) ==
    filterMoviesByYear(SelectSeq(res, HasPoster), yearFilter)

\* searchMoviesWithOMDb returns res and handleMovieSuggestion stores it
Return(cs, res) ==
    LET fetchedMovies == Returned(res, reqFilters.year) IN
    IF Len(fetchedMovies) > 0
    THEN Finish(cs, fetchedMovies, error)
    ELSE Finish(cs, movies, NoMatchMsg)

\* fetch(...) followed by await: the call goes out and the code waits at at
Await(cs, kind, arg, at, ts, i, seen, res, hs, j) ==
    /\ calls' = Append(cs, [kind |-> kind, arg |-> arg, state |-> "pending"])
    /\ pc' = at
    /\ titles' = ts
    /\ idx' = i
    /\ seenMovies' = seen
    /\ results' = res
    /\ hits' = hs
    /\ hidx' = j
    /\ UNCHANGED <<GEMINI_API_KEY, OMDB_API_KEY, userInput, filters, movies,
                   isLoading, error, reqInput, reqFilters>>

NeedsFallback_NoPoster(res) == Len(SelectSeq(res, HasPoster)) = 0

\* results.length === 0
NeedsFallback(res) == Len(res) = 0

\* the text of the keyword search
FallbackQuery == reqInput

\* the for..of over titles standing before its i-th title, and what follows
\* the loop when the titles are used up
TitleLoop(cs, ts, i, seen, res) ==
    IF i <= Len(ts)
    THEN Await(cs, "title", ts[i], "awaitTitle", ts, i, seen, res, hits, hidx)
    ELSE IF NeedsFallback(res)
    THEN Await(cs, "search", FallbackQuery, "awaitSearch", ts, i, seen, res,
               hits, hidx)
    ELSE Return(cs, res)

\* the positions from j on of the hits whose id is not in seen
Unseen(hs, j, seen) == {k \in j..Len(hs) : hs[k].imdbID \notin seen}

\* the for..of over fallbackData.Search standing before its j-th hit
HitLoop(cs, hs, j, seen, res) ==
    LET open == Unseen(hs, j, seen) IN
    IF open # {}
    THEN LET k == CHOOSE k \in open : \A m \in open : k <= m IN
         Await(cs, "detail", hs[k].imdbID, "awaitDetail", titles, idx, seen,
               res, hs, k)
    ELSE Return(cs, res)

----------------------------------------------------------------------------
(* handleMovieSuggestion and its helpers *)

IsBlank_NoTrim(text) == text = <<>>

\* !userInput.trim()
IsBlank(text) == Trim(text) = <<>>

SubmitDisabled_Never == FALSE

\* disabled={isLoading} on the submit button: neither a click nor Enter in
\* the text input submits the form while it holds
SubmitDisabled == isLoading

\* the form is submitted: a blank text ends the handler at once, any other
\* text starts a request
handleMovieSuggestion ==
    /\ ~SubmitDisabled
    /\ IF IsBlank(userInput)
       THEN /\ error' = ValidationMsg
            /\ UNCHANGED <<GEMINI_API_KEY, OMDB_API_KEY, userInput, filters,
                           movies, isLoading, pc, reqInput, reqFilters, titles,
                           idx, seenMovies, results, hits, hidx, calls, last>>
       ELSE /\ isLoading' = TRUE
            /\ error' = Null
            /\ movies' = <<>>
            /\ pc' = "getAiSuggestions"
            /\ reqInput' = userInput
            /\ reqFilters' = filters
            /\ calls' = <<>>
            /\ last' = NoLast
            /\ UNCHANGED <<GEMINI_API_KEY, OMDB_API_KEY, userInput, filters,
                           titles, idx, seenMovies, results, hits, hidx>>
    /\ UNCHANGED harnessVars

\* getAiSuggestions up to its fetch
getAiSuggestions ==
    /\ pc = "getAiSuggestions"
    /\ IF ~GEMINI_API_KEY
       THEN Fail(calls, GeminiKeyMsg)
       ELSE Await(calls, "generate", [text |-> reqInput, filters |-> reqFilters],
                  "awaitGenerate", titles, idx, seenMovies, results, hits, hidx)
    /\ UNCHANGED last
    /\ UNCHANGED harnessVars

IsFalsyText_MissingOnly(body) == ~body.hasText

\* !text
IsFalsyText(body) == ~body.hasText \/ body.text = <<>>

\* searchMoviesWithOMDb up to its first fetch
searchMoviesWithOMDb(cs, ts) ==
    IF ~OMDB_API_KEY
    THEN Fail(cs, SearchFailedMsg)
    ELSE TitleLoop(cs, ts, 1, {}, <<>>)

\* getAiSuggestions after its fetch, then searchMoviesWithOMDb
ResumeGenerate ==
    /\ pc = "awaitGenerate"
    /\ \E n \in InFlight(calls) : \E o \in Outcomes("generate") :
         /\ last' = Resumed(calls, n, o)
         /\ LET cs == Settle(calls, n, o) IN
             CASE o.how = "reject" -> Fail(cs, o.message)
               [] o.how = "notok" -> Fail(cs, AiFailedMsg)
               [] o.how = "badjson" -> Fail(cs, o.message)
               [] o.how = "json" ->
                    IF IsFalsyText(o.body)
                    THEN Fail(cs, AiEmptyMsg)
                    ELSE searchMoviesWithOMDb(cs, ParseTitles(o.body.text))
    /\ UNCHANGED harnessVars

\* data.Response === 'True' && !seenMovies.has(data.imdbID); a lookup that
\* rejected, was not ok or had no JSON body collects nothing
Collects(o, seen) ==
    /\ o.how = "json"
    /\ o.body.Response = "True"
    /\ o.body.imdbID \notin seen

NextTitle_Retry(i) == i

\* the for..of moves to its next title
NextTitle(i) == i + 1

TitleLookupThrows_NoCatch(o) == o.how \in {"reject", "badjson"}

\* what leaves the body of the for..of over titles as an exception: nothing,
\* the try/catch inside the loop logs what fetch and json() throw
TitleLookupThrows(o) == FALSE

\* the body of the for..of over titles after its fetch
ResumeTitle ==
    /\ pc = "awaitTitle"
    /\ \E n \in InFlight(calls) : \E o \in Outcomes("title") :
         /\ last' = Resumed(calls, n, o)
         /\ LET cs == Settle(calls, n, o) IN
             IF TitleLookupThrows(o)
             THEN Fail(cs, SearchFailedMsg)
             ELSE IF Collects(o, seenMovies)
             THEN TitleLoop(cs, titles, NextTitle(idx),
                            seenMovies \cup {o.body.imdbID}, Append(results, o.body))
             ELSE TitleLoop(cs, titles, NextTitle(idx), seenMovies, results)
    /\ UNCHANGED harnessVars

\* what leaves the keyword search as an exception, to the catch at the end
\* of searchMoviesWithOMDb: what fetch and json() throw
SearchThrows(o) == o.how \in {"reject", "badjson"}

\* the fallback after its keyword search
ResumeSearch ==
    /\ pc = "awaitSearch"
    /\ \E n \in InFlight(calls) : \E o \in Outcomes("search") :
         /\ last' = Resumed(calls, n, o)
         /\ LET cs == Settle(calls, n, o) IN
             IF SearchThrows(o)
             THEN Fail(cs, SearchFailedMsg)
             ELSE IF o.how = "json" /\ o.body.Response = "True" /\ o.body.hasSearch
             THEN HitLoop(cs, o.body.Search, 1, seenMovies, results)
             ELSE Return(cs, results)
    /\ UNCHANGED harnessVars

\* detailResponse.ok and detailData.Response === 'True'
Resolves(o) == o.how = "json" /\ o.body.Response = "True"

\* the body of the for..of over the hits after its fetch
ResumeDetail ==
    /\ pc = "awaitDetail"
    /\ \E n \in InFlight(calls) : \E o \in Outcomes("detail") :
         /\ last' = Resumed(calls, n, o)
         /\ LET cs == Settle(calls, n, o) IN
             IF Resolves(o)
             THEN HitLoop(cs, hits, hidx + 1, seenMovies \cup {o.body.imdbID},
                          Append(results, o.body))
             ELSE HitLoop(cs, hits, hidx + 1, seenMovies, results)
    /\ UNCHANGED harnessVars

Next ==
    \/ SetUserInput
    \/ handleFilterChange
    \/ handleMovieSuggestion
    \/ getAiSuggestions
    \/ ResumeGenerate
    \/ ResumeTitle
    \/ ResumeSearch
    \/ ResumeDetail

Spec == Init /\ [][Next]_vars

\* every fetch that was issued settles, and the code that awaits it resumes
SpecLive ==
    /\ Init
    /\ [][Next]_vars
    /\ WF_vars(getAiSuggestions)
    /\ WF_vars(ResumeGenerate)
    /\ WF_vars(ResumeTitle)
    /\ WF_vars(ResumeSearch)
    /\ WF_vars(ResumeDetail)

----------------------------------------------------------------------------
(* The year filter on its own: filterMoviesByYear applied to a list, and    *)
(* applied again to what it returned                                       *)

\* the buckets the filter is given: the select's, and two it does not know
FilterBuckets == RecognizedBuckets \cup {"all", "1970s", ""}

FilterYears ==
    {<<"1", "9", "7", "9">>, <<"1", "9", "8", "0">>, <<"2", "0", "1", "0">>,
     <<"2", "0", "1", "9", "-">>, <<"2", "0", "2", "0">>,
     <<"2", "0", "2", "4">>, <<"N", "/", "A">>}

FilterRecords ==
    [Response : {"True"}, imdbID : IDs, Year : FilterYears,
     Poster : {"http://poster"}]

FilterInit ==
    /\ GEMINI_API_KEY = TRUE
    /\ OMDB_API_KEY = TRUE
    /\ userInput = <<>>
    /\ filters = DefaultFilters
    /\ movies = <<>>
    /\ isLoading = FALSE
    /\ error = Null
    /\ pc = "idle"
    /\ reqInput = <<>>
    /\ reqFilters = DefaultFilters
    /\ titles = <<>>
    /\ idx = 0
    /\ seenMovies = {}
    /\ results = <<>>
    /\ hits = <<>>
    /\ hidx = 0
    /\ calls = <<>>
    /\ last = NoLast
    /\ fMovies \in SeqsUpTo(FilterRecords, MaxLen)
    /\ fYear \in FilterBuckets
    /\ fOut = <<>>
    /\ fTwice = <<>>
    /\ fpc = 0

FilterOnce ==
    /\ fpc = 0
    /\ fOut' = filterMoviesByYear(fMovies, fYear)
    /\ fpc' = 1
    /\ UNCHANGED <<fMovies, fYear, fTwice>>
    /\ UNCHANGED appVars

FilterTwice ==
    /\ fpc = 1
    /\ fTwice' = filterMoviesByYear(fOut, fYear)
    /\ fpc' = 2
    /\ UNCHANGED <<fMovies, fYear, fOut>>
    /\ UNCHANGED appVars

FilterNext ==
    \/ FilterOnce
    \/ FilterTwice

SpecFilter == FilterInit /\ [][FilterNext]_vars

----------------------------------------------------------------------------
(* Claims *)

DistinctIds(ms) ==
    \A i \in 1..Len(ms) : \A j \in 1..Len(ms) :
        i # j => ms[i].imdbID # ms[j].imdbID

\* C1: the list a successful run stores in movies has no two records with
\* the same imdbID and no record whose Poster is 'N/A'.
C1_DistinctIdsAndPosters ==
    /\ DistinctIds(movies)
    /\ \A i \in 1..Len(movies) : movies[i].Poster # "N/A"

\* the fetches of the metadata API in a log
MetadataCalls(cs) == {n \in 1..Len(cs) : cs[n].kind # "generate"}

\* a step in which the code resumes on the fetch it waited for at the given pc
Resumes(at) == pc = at /\ calls' # calls

\* C2 as stated: a generated text that is missing, empty or holds no title
\* ends the request with an upstream error and no metadata call.
C2_NoTitleIsUpstreamError ==
    [][Resumes("awaitGenerate") /\ last'.state \in {"missing", "empty", "blank"}
       => /\ pc' = "idle"
          /\ error' \in {AiEmptyMsg, AiFailedMsg, SearchFailedMsg}
          /\ MetadataCalls(calls) = {}]_vars

\* C2 amended: a missing or empty generated text ends the request with the
\* empty-response error and no metadata call has been issued; a text that
\* is not empty and holds no title is no error, the request goes on to the
\* keyword search (with the metadata key configured).
C2_EmptyTextIsUpstreamError ==
    [][Resumes("awaitGenerate")
       => /\ last'.state \in {"missing", "empty"}
             => /\ pc' = "idle"
                /\ ~isLoading'
                /\ error' = AiEmptyMsg
                /\ movies' = <<>>
                /\ MetadataCalls(calls) = {}
          /\ last'.state = "blank" /\ OMDB_API_KEY
             => /\ pc' = "awaitSearch"
                /\ error' = Null
                /\ calls'[Len(calls')].kind = "search"]_vars

C2_Witness ==
    /\ pc = "idle"
    /\ last = [kind |-> "generate", state |-> "empty"]
    /\ error = AiEmptyMsg

\* C3 as stated: whenever a submission has ended with an error shown, the
\* displayed list movies is empty.
C3_ErrorShownMeansNoMovies ==
    (pc = "idle" /\ error # Null) => movies = <<>>

TitleIdx(cs) == {n \in 1..Len(cs) : cs[n].kind = "title"}

SearchIdx(cs) == {n \in 1..Len(cs) : cs[n].kind = "search"}

TitleCalls(cs) == LET IsTitle(c) == c.kind = "title" IN SelectSeq(cs, IsTitle)

LastCall(cs) == cs[Len(cs)]

\* the for..of over titles ends in this step
LoopEnds == Resumes("awaitTitle") /\ pc' # "awaitTitle"

\* ... and has collected no record
LoopEndsEmpty == LoopEnds /\ results = <<>> /\ last'.state = "failed"

C4_Log ==
    /\ Cardinality(SearchIdx(calls)) <= 1
    /\ \A n \in SearchIdx(calls) :
          /\ calls[n].arg = reqInput
          /\ Cardinality(TitleIdx(calls)) = Len(titles)
          /\ \A m \in TitleIdx(calls) : m < n /\ calls[m].state = "failed"

C4_Steps ==
    /\ pc = "idle" /\ pc' # "idle" => reqInput' = userInput
    /\ pc # "idle" /\ pc' # "idle" => reqInput' = reqInput
    /\ LoopEndsEmpty \/ (Resumes("awaitGenerate") /\ last'.state = "blank"
                         /\ OMDB_API_KEY)
       => /\ pc' = "awaitSearch"
          /\ Len(calls') = Len(calls) + 1
          /\ LastCall(calls').kind = "search"
          /\ LastCall(calls').arg = reqInput
    /\ LoopEnds /\ ~LoopEndsEmpty
       => /\ pc' = "idle"
          /\ SearchIdx(calls) = {}

\* C4: when the exact-title loop ends with no collected record (an empty
\* candidate list included) exactly one keyword search is issued, after the
\* last exact-title lookup, with the request's raw mood text; when the loop
\* collected a record no keyword search is issued.
C4_OneFallbackSearch == [][C4_Log' /\ C4_Steps]_vars

C4_Witness ==
    /\ pc = "awaitSearch"
    /\ Len(titles) = 2
    /\ reqInput = <<" ", "a">>
    /\ userInput # reqInput

----------------------------------------------------------------------------
(* Claims about the year filter, under SpecFilter *)

DecadeBuckets == {"2010s", "2000s", "1990s", "1980s"}

DecadeStart(b) ==
    CASE b = "2010s" -> 2010 [] b = "2000s" -> 2000
      [] b = "1990s" -> 1990 [] b = "1980s" -> 1980

ExactBuckets == {"2025", "2024", "2023", "2022", "2021", "2020"}

ExactYear(b) ==
    CASE b = "2025" -> 2025 [] b = "2024" -> 2024 [] b = "2023" -> 2023
      [] b = "2022" -> 2022 [] b = "2021" -> 2021 [] b = "2020" -> 2020

HasNumericYear(m) == ~IsNaN(ParseInt(m.Year))

InBucket(m, b) ==
    /\ HasNumericYear(m)
    /\ LET y == ParseInt(m.Year)[1] IN
       /\ b = "classic" => y < 1980
       /\ b \in DecadeBuckets => DecadeStart(b) <= y /\ y <= DecadeStart(b) + 9
       /\ b \in ExactBuckets => y = ExactYear(b)

\* C5: under 'classic' every returned record's year parses to an integer
\* below 1980, under a decade bucket to one of the decade's ten years, under
\* an exact-year bucket to that year; a record whose year does not parse is
\* not returned under any of these buckets.
C5_ReturnedYearsInBucket ==
    (fpc >= 1 /\ fYear \in RecognizedBuckets)
        => \A i \in 1..Len(fOut) : InBucket(fOut[i], fYear)

C5_Witness ==
    /\ fpc >= 1
    /\ fYear = "2010s"
    /\ Len(fMovies) = 2
    /\ Len(fOut) = 1
    /\ fOut[1].Year = <<"2", "0", "1", "9", "-">>

\* C6 as stated: a bucket that is neither recognized nor 'all' returns every
\* input record, records with a non-numeric year included.
C6_UnknownBucketKeepsAll ==
    (fpc >= 1 /\ fYear \notin RecognizedBuckets \cup {"all"}) => fOut = fMovies

\* C6 amended: a bucket that is neither recognized nor 'all' returns, in
\* their order and unchanged, exactly the input records whose year parses as
\* an integer; the records whose year does not parse are dropped.
C6_UnknownBucketKeepsNumericYears ==
    (fpc >= 1 /\ fYear \notin RecognizedBuckets \cup {"all"})
        => fOut = SelectSeq(fMovies, HasNumericYear)

C6_Witness ==
    /\ fpc >= 1
    /\ fYear = "1970s"
    /\ Len(fMovies) = 2
    /\ HasNumericYear(fMovies[1])
    /\ ~HasNumericYear(fMovies[2])
    /\ fOut = <<fMovies[1]>>

\* C8: filtering a filtered list again with the same bucket changes nothing.
C8_FilterIdempotent == fpc = 2 => fTwice = fOut

C8_Witness ==
    /\ fpc = 2
    /\ Len(fMovies) = 2
    /\ Len(fOut) = 1
    /\ fTwice = fOut

----------------------------------------------------------------------------
(* Claims about the request, under Spec *)

BlankText(text) == \A i \in 1..Len(text) : text[i] = " "

\* C7: a submission of an empty or all-blank text sets the validation error,
\* issues no call, does not set isLoading and leaves the filters (and the
\* rest of the state) as they are; no request ever runs on a blank text.
C7_BlankSubmission ==
    [][/\ handleMovieSuggestion /\ BlankText(userInput)
          => /\ error' = ValidationMsg
             /\ ~isLoading'
             /\ filters' = filters
             /\ calls' = calls
             /\ calls' = <<>>
             /\ pc' = "idle"
       /\ ~isLoading /\ isLoading' => ~BlankText(userInput)
       /\ pc' # "idle" => ~BlankText(reqInput')]_vars

C7_Witness ==
    /\ error = ValidationMsg
    /\ userInput = <<" ">>
    /\ ~isLoading
    /\ calls = <<>>
    /\ filters.year # "all"

\* C9: after a failed exact-title lookup the next title is looked up with
\* the collected records kept; after the last title the request goes on as
\* if the lookup had found nothing: the fallback when nothing was collected,
\* else the collected records are returned, and the only error the request
\* can end with is the one for an empty result.
C9_LookupFailureIsSkipped ==
    [][Resumes("awaitTitle") /\ last'.state = "failed"
       => LET issued == Cardinality(TitleIdx(calls))
              fetched == Returned(results, reqFilters.year)
          IN  IF issued < Len(titles)
              THEN /\ pc' = "awaitTitle"
                   /\ LastCall(calls').kind = "title"
                   /\ LastCall(calls').arg = titles[issued + 1]
                   /\ results' = results
                   /\ seenMovies' = seenMovies
                   /\ error' = Null
                   /\ isLoading'
              ELSE IF results = <<>>
              THEN /\ pc' = "awaitSearch"
                   /\ error' = Null
                   /\ isLoading'
              ELSE /\ pc' = "idle"
                   /\ IF fetched # <<>>
                      THEN movies' = fetched /\ error' = Null
                      ELSE movies' = <<>> /\ error' = NoMatchMsg]_vars

C9_Witness ==
    /\ pc = "awaitTitle"
    /\ last = [kind |-> "title", state |-> "failed"]
    /\ Cardinality(TitleIdx(calls)) = 2
    /\ calls[3].state = "pending"

C10_Log ==
    LET tc == TitleCalls(calls) IN
    /\ Len(tc) <= Len(titles)
    /\ \A k \in 1..Len(tc) : tc[k].arg = titles[k]
    /\ Cardinality(InFlight(calls)) <= 1
    /\ \A n \in 1..(Len(calls) - 1) : calls[n].state # "pending"
    /\ pc \in {"awaitSearch", "awaitDetail"} => Len(tc) = Len(titles)

C10_Steps ==
    /\ LoopEnds => Len(TitleCalls(calls)) = Len(titles)
    /\ Resumes("awaitTitle") /\ ~LoopEnds
       => Len(TitleCalls(calls')) = Len(TitleCalls(calls)) + 1
    /\ pc \in {"awaitTitle", "awaitSearch", "awaitDetail"} /\ pc' # "idle"
       => titles' = titles

C11_OneRequestAtATime ==
    [][/\ isLoading' <=> pc' # "idle"
       /\ SubmitDisabled' <=> isLoading'
       /\ handleMovieSuggestion /\ ~BlankText(userInput)
          => /\ pc = "idle"
             /\ InFlight(calls) = {}
             /\ isLoading'
       /\ pc # "idle" /\ pc' # "idle"
          => /\ movies' = movies
             /\ error' = error
             /\ reqInput' = reqInput
             /\ reqFilters' = reqFilters
       /\ pc # "idle" /\ pc' = "idle" => InFlight(calls') = {}]_vars

C11_Witness ==
    /\ pc = "awaitDetail"
    /\ isLoading
    /\ SubmitDisabled
    /\ ~BlankText(userInput)
    /\ userInput # reqInput
    /\ filters # reqFilters

\* the error banner is rendered: error is neither null nor the empty string
ErrorShown == error # Null /\ error # ""

\* C12: when every issued fetch settles, a request that has set isLoading
\* sets it back to false, and the step that does so leaves either a
\* non-empty movies with error null, or an empty movies with an error shown.
C12_RequestEnds ==
    /\ isLoading ~> ~isLoading
    /\ [][isLoading /\ ~isLoading'
          => \/ movies' # <<>> /\ error' = Null
             \/ movies' = <<>> /\ ErrorShown']_vars

C12_Witness ==
    /\ ~isLoading
    /\ pc = "idle"
    /\ last = [kind |-> "detail", state |-> "found"]
    /\ movies # <<>>
    /\ error = Null

====
